---------------------------- MODULE Spec2Model ----------------------------
(***************************************************************************)
(* Registration (routes/auth.js), friend-request lifecycle and friend      *)
(* recommendations (routes/friends.js) of Make-Friends-Backend.            *)
(*                                                                         *)
(* The user directory is the MongoDB collection behind the Mongoose model  *)
(* User.  A handler works on documents returned by User.findById; what a   *)
(* document writes back on save() is what Mongoose sends for it: an array  *)
(* that was assigned is $set as a whole and guarded by the version key,    *)
(* an array that was pushed to is $push-ed, an unmodified document writes  *)
(* nothing.  A handler gives way at each of its awaits, and the handlers   *)
(* of other requests run in between.                                       *)
(***************************************************************************)
EXTENDS Integers, Sequences, FiniteSets, TLC

NumUsers == 3
NumSlots == 2
MaxRequests == 3
NumRecUsers == 3
NumRankUsers == 6
MaxGets == 1
MaxRecPosts == 1
MaxResults == 5

\* an id in the :userId path parameter that names no user
NoUser == 0

Null == [id |-> NoUser]

Paths == {"friends", "sentFriendRequests", "pendingFriendRequests"}

\* db: the users collection, in insertion order; resp: the last response sent;
\* inflight: the requests being served, each at one of its awaits;
\* budget: how many more GET and POST requests the clients send;
\* overlap: whether a request ever arrived while another was being served
VARIABLES db, resp, inflight, budget, overlap

vars == <<db, resp, inflight, budget, overlap>>

-----------------------------------------------------------------------------
\* Arrays

\* Array.prototype.includes on an array of ids / strings
Includes(arr, x) == \E i \in 1..Len(arr) : arr[i] = x

\* arr.filter(id => id.toString() !== x.toString())
Without(arr, x) == SelectSeq(arr, LAMBDA y : y # x)

Elems(arr) == {arr[i] : i \in 1..Len(arr)}

-----------------------------------------------------------------------------
\* Documents

NoPushes == [p \in Paths |-> <<>>]

\* User.findById(id): a fresh document object, or null
FindById(d, id) ==
  IF id \in DOMAIN d
  THEN [id |-> id,
        friends |-> d[id].friends,
        sentFriendRequests |-> d[id].sentFriendRequests,
        pendingFriendRequests |-> d[id].pendingFriendRequests,
        version |-> d[id].version,
        assigned |-> {},
        pushed |-> NoPushes]
  ELSE Null

\* doc.path = val : the path is marked modified unless val equals the old value
Assign(doc, path, val) ==
  IF doc[path] = val THEN doc
  ELSE [doc EXCEPT ![path] = val, !.assigned = @ \cup {path}]

\* doc.path.push(x)
Push(doc, path, x) ==
  [doc EXCEPT ![path] = Append(@, x), !.pushed[path] = Append(@, x)]

IsModified(doc) == doc.assigned # {} \/ \E p \in Paths : doc.pushed[p] # <<>>

\* the stored array after the update doc.save() sends
Stored(d, doc, path) ==
  IF path \in doc.assigned THEN doc[path] ELSE d[doc.id][path] \o doc.pushed[path]

\* await doc.save() : [db, ok]; ok = FALSE is a thrown VersionError
Save(d, doc) ==
  IF ~IsModified(doc) THEN [db |-> d, ok |-> TRUE]
  ELSE IF doc.assigned # {} /\ d[doc.id].version # doc.version
       THEN [db |-> d, ok |-> FALSE]
       ELSE [db |-> [d EXCEPT ![doc.id] =
                      [@ EXCEPT !.friends = Stored(d, doc, "friends"),
                                !.sentFriendRequests = Stored(d, doc, "sentFriendRequests"),
                                !.pendingFriendRequests = Stored(d, doc, "pendingFriendRequests"),
                                !.version = @ + 1]],
             ok |-> TRUE]

\* new User({username, password, interests}): the lists start empty
NewUser(username, interests) ==
  [username |-> username, interests |-> interests, friends |-> <<>>,
   sentFriendRequests |-> <<>>, pendingFriendRequests |-> <<>>, version |-> 0]

\* User.findOne({username})
UsernameExists(d, username) == \E u \in DOMAIN d : d[u].username = username

\* the id of the document the next insert adds
NextId(d) == Cardinality(DOMAIN d) + 1

\* await user.save() of a new document
Insert(d, user) ==
  [u \in 1..NextId(d) |-> IF u \in DOMAIN d THEN d[u] ELSE user]

-----------------------------------------------------------------------------
\* Handlers, up to the first save: the reply of an early return, or the two
\* documents to save, in order, and the reply that follows them

Reply(code, message, status) == [code |-> code, message |-> message, status |-> status]

Early(r) == [early |-> TRUE, reply |-> r]
Saves(first, second, r, failure) ==
  [early |-> FALSE, first |-> first, second |-> second, reply |-> r,
   failure |-> Reply(500, failure, "none")]

\* POST /request/:userId
RequestPlan(sender, receiver) ==
  IF receiver = Null THEN Early(Reply(404, "User not found", "none"))
  ELSE IF Includes(sender.friends, receiver.id)
  THEN Early(Reply(400, "Already friends", "none"))
  ELSE IF Includes(sender.sentFriendRequests, receiver.id)
  THEN Saves(Assign(sender, "sentFriendRequests",
                    Without(sender.sentFriendRequests, receiver.id)),
             Assign(receiver, "pendingFriendRequests",
                    Without(receiver.pendingFriendRequests, sender.id)),
             Reply(200, "Friend request cancelled", "cancelled"),
             "Error managing friend request")
  ELSE Saves(Push(receiver, "pendingFriendRequests", sender.id),
             Push(sender, "sentFriendRequests", receiver.id),
             Reply(200, "Friend request sent", "requested"),
             "Error managing friend request")

\* POST /accept/:userId
AcceptPlan(receiver, sender) ==
  IF sender = Null THEN Early(Reply(404, "User not found", "none"))
  ELSE Saves(Push(Assign(receiver, "pendingFriendRequests",
                         Without(receiver.pendingFriendRequests, sender.id)),
                  "friends", sender.id),
             Push(Assign(sender, "sentFriendRequests",
                         Without(sender.sentFriendRequests, receiver.id)),
                  "friends", receiver.id),
             Reply(200, "Friend request accepted", "none"),
             "Error accepting friend request")

\* POST /unfriend/:userId
UnfriendPlan(user, friend) ==
  IF friend = Null THEN Early(Reply(404, "User not found", "none"))
  ELSE Saves(Assign(user, "friends", Without(user.friends, friend.id)),
             Assign(friend, "friends", Without(friend.friends, user.id)),
             Reply(200, "Friend removed", "none"),
             "Error removing friend")

Plan(op, first, second) ==
  CASE op = "request" -> RequestPlan(first, second)
    [] op = "accept" -> AcceptPlan(first, second)
    [] op = "unfriend" -> UnfriendPlan(first, second)

\* a whole handler run with nothing in between: [db, reply]
Handle(d, op, userId, paramId) ==
  LET plan == Plan(op, FindById(d, userId), FindById(d, paramId)) IN
  IF plan.early THEN [db |-> d, reply |-> plan.reply]
  ELSE LET s1 == Save(d, plan.first) IN
       IF ~s1.ok THEN [db |-> d, reply |-> plan.failure]
       ELSE LET s2 == Save(s1.db, plan.second) IN
            IF ~s2.ok THEN [db |-> s1.db, reply |-> plan.failure]
            ELSE [db |-> s2.db, reply |-> plan.reply]

-----------------------------------------------------------------------------
\* State

Request(op, userId, paramId) == [op |-> op, userId |-> userId, paramId |-> paramId]

Response(req, reply) ==
  [op |-> req.op, userId |-> req.userId, paramId |-> req.paramId, reply |-> reply]

NoResp == Response(Request("none", NoUser, NoUser), Reply(0, "", "none"))

Slots == 1..NumSlots
Idle == [pc |-> "idle"]

AllIdle == \A k \in Slots : inflight[k].pc = "idle"

\* res.json(...) / res.status(...).json(...): the handler is done
Answer(k, req, reply) ==
  /\ resp' = Response(req, reply)
  /\ inflight' = [inflight EXCEPT ![k] = Idle]

\* the handler stops at its next await
Await(k, pc, req, locals) ==
  /\ inflight' = [inflight EXCEPT ![k] = [pc |-> pc, req |-> req, locals |-> locals]]
  /\ UNCHANGED resp

\* a POST request arrives at a free handler
ArrivePost(k) ==
  /\ inflight[k].pc = "idle"
  /\ budget.post > 0
  /\ budget' = [budget EXCEPT !.post = @ - 1]
  /\ overlap' = (overlap \/ ~AllIdle)

\* a GET request arrives at a free handler
ArriveGet(k) ==
  /\ inflight[k].pc = "idle"
  /\ budget.get > 0
  /\ budget' = [budget EXCEPT !.get = @ - 1]
  /\ overlap' = (overlap \/ ~AllIdle)

\* the :userId path parameters the clients send
Targets == DOMAIN db \cup {NoUser}

-----------------------------------------------------------------------------
\* POST /auth/register

InterestLists == {<<>>, <<"a", "a">>, <<"a", "b">>}

\* the usernames the clients register: those taken and the next one
Usernames == 1..NextId(db)

\* the request arrives and findOne({username}) resolves
BeginRegister(k, username, interests) ==
  /\ ArrivePost(k)
  /\ UNCHANGED db
  /\ IF UsernameExists(db, username)
     THEN Answer(k, Request("register", NoUser, NoUser),
                 Reply(400, "Username already exists", "none"))
     ELSE Await(k, "save", Request("register", NoUser, NoUser),
                [username |-> username, interests |-> interests])

\* user.save() resolves and the response is sent.  The schema of User is not
\* part of the sources: with a unique index on username the save of a username
\* taken in the meantime throws, without one it inserts.
SaveUser(k) ==
  /\ inflight[k].pc = "save"
  /\ UNCHANGED <<budget, overlap>>
  /\ LET new == inflight[k].locals IN
     \E unique \in BOOLEAN :
       IF unique /\ UsernameExists(db, new.username)
       THEN /\ UNCHANGED db
            /\ Answer(k, inflight[k].req, Reply(500, "Error creating user", "none"))
       ELSE /\ db' = Insert(db, NewUser(new.username, new.interests))
            /\ Answer(k, inflight[k].req, [code |-> 201, userId |-> NextId(db)])

-----------------------------------------------------------------------------
\* POST /friends/request/:userId, /accept/:userId, /unfriend/:userId

\* the request arrives and the first findById (of req.userId) resolves
Begin(k, op, userId, paramId) ==
  /\ ArrivePost(k)
  /\ UNCHANGED db
  /\ Await(k, "findSecond", Request(op, userId, paramId),
           [first |-> FindById(db, userId)])

\* the second findById (of req.params.userId) resolves; the handler runs up
\* to its first save, or returns early
FindSecond(k) ==
  /\ inflight[k].pc = "findSecond"
  /\ UNCHANGED <<db, budget, overlap>>
  /\ LET req == inflight[k].req
         plan == Plan(req.op, inflight[k].locals.first, FindById(db, req.paramId))
     IN IF plan.early THEN Answer(k, req, plan.reply)
        ELSE Await(k, "saveFirst", req, plan)

\* the first save resolves, or throws into the catch block
SaveFirst(k) ==
  /\ inflight[k].pc = "saveFirst"
  /\ UNCHANGED <<budget, overlap>>
  /\ LET plan == inflight[k].locals
         s == Save(db, plan.first)
     IN /\ db' = s.db
        /\ IF s.ok THEN Await(k, "saveSecond", inflight[k].req, plan)
           ELSE Answer(k, inflight[k].req, plan.failure)

\* the second save resolves, or throws, and the response is sent
SaveSecond(k) ==
  /\ inflight[k].pc = "saveSecond"
  /\ UNCHANGED <<budget, overlap>>
  /\ LET plan == inflight[k].locals
         s == Save(db, plan.second)
     IN /\ db' = s.db
        /\ Answer(k, inflight[k].req, IF s.ok THEN plan.reply ELSE plan.failure)

Register ==
  \E k \in Slots, username \in Usernames, interests \in InterestLists :
    BeginRegister(k, username, interests)
StepSaveUser == \E k \in Slots : SaveUser(k)
SendRequest == \E k \in Slots, u \in DOMAIN db, t \in Targets : Begin(k, "request", u, t)
Accept == \E k \in Slots, u \in DOMAIN db, t \in Targets : Begin(k, "accept", u, t)
Unfriend == \E k \in Slots, u \in DOMAIN db, t \in Targets : Begin(k, "unfriend", u, t)
StepFindSecond == \E k \in Slots : FindSecond(k)
StepSaveFirst == \E k \in Slots : SaveFirst(k)
StepSaveSecond == \E k \in Slots : SaveSecond(k)

\* all lists empty, no request being served
Init ==
  /\ db = [u \in 1..NumUsers |-> NewUser(u, <<>>)]
  /\ resp = NoResp
  /\ inflight = [k \in Slots |-> Idle]
  /\ budget = [get |-> 0, post |-> MaxRequests]
  /\ overlap = FALSE

Next ==
  \/ Register \/ StepSaveUser
  \/ SendRequest \/ Accept \/ Unfriend
  \/ StepFindSecond \/ StepSaveFirst \/ StepSaveSecond

Spec == Init /\ [][Next]_vars

-----------------------------------------------------------------------------
\* GET /friends/recommendations

\* the ids of the collection in natural (insertion) order
AllIds(d) == [i \in 1..Cardinality(DOMAIN d) |-> i]

\* .populate(path): the documents the ids resolve to, in the array's order
Populate(d, ids) == SelectSeq(ids, LAMBDA id : id \in DOMAIN d)

\* User.findById(req.userId).populate('friends').populate('sentFriendRequests')
\*   .populate('pendingFriendRequests')
FindSubject(d, userId) ==
  [id |-> userId,
   interests |-> d[userId].interests,
   friends |-> Populate(d, d[userId].friends),
   sentFriendRequests |-> Populate(d, d[userId].sentFriendRequests),
   pendingFriendRequests |-> Populate(d, d[userId].pendingFriendRequests)]

\* friendIds: the ids of the subject's populated friends
FriendIds(user) == user.friends

\* ExcludeIds with the pending requests forgotten
ExcludeIdsWithoutPending(user) ==
  FriendIds(user) \o user.sentFriendRequests \o <<user.id>>

\* excludeIds = [...friendIds, ...sentRequestIds, ...pendingRequestIds, user._id]
ExcludeIds(user) ==
  FriendIds(user) \o user.sentFriendRequests \o user.pendingFriendRequests
    \o <<user.id>>

\* a document object a find returns: the user as stored when the find ran,
\* friends populated, and the query that created the object
Found(d, query, ids) ==
  [i \in 1..Len(ids) |->
     [id |-> ids[i], query |-> query,
      interests |-> d[ids[i]].interests,
      friends |-> Populate(d, d[ids[i]].friends)]]

\* potential.friends.filter(friend => friendIds.includes(friend._id)).length
MutualFriendsCount(friendIds, potential) ==
  Len(SelectSeq(potential.friends, LAMBDA f : Includes(friendIds, f)))

\* user.interests.filter(interest => potential.interests.includes(interest)).length
MutualInterestsCount(user, potential) ==
  Len(SelectSeq(user.interests, LAMBDA i : Includes(potential.interests, i)))

\* User.find({_id: {$nin: excludeIds}, interests: {$in: user.interests}})
SimilarInterestsUsers(d, user) ==
  Found(d, "interests",
    SelectSeq(AllIds(d), LAMBDA u :
      /\ ~Includes(ExcludeIds(user), u)
      /\ \E i \in 1..Len(d[u].interests) : Includes(user.interests, d[u].interests[i])))

\* User.find({_id: {$nin: excludeIds}}), filtered to a mutual friend count > 0
MutualFriendsUsers(d, user) ==
  SelectSeq(Found(d, "friends",
              SelectSeq(AllIds(d), LAMBDA u : ~Includes(ExcludeIds(user), u))),
            LAMBDA potential : MutualFriendsCount(FriendIds(user), potential) > 0)

\* [...new Set(arr)]: the first occurrence of each object of arr
UniqueObjects(arr) ==
  LET first(i) == \A j \in 1..(i - 1) : arr[j] # arr[i]
      kept == {i \in 1..Len(arr) : first(i)}
      nth(k) == CHOOSE i \in kept : Cardinality({j \in kept : j < i}) = k - 1
  IN [k \in 1..Cardinality(kept) |-> arr[nth(k)]]

\* the element .map builds for one potential user
Recommendation(user, potential) ==
  LET mutualFriends == MutualFriendsCount(FriendIds(user), potential)
      mutualInterests == MutualInterestsCount(user, potential)
  IN [user |-> potential.id, mutualFriends |-> mutualFriends,
      mutualInterests |-> mutualInterests,
      score |-> (mutualFriends * 2) + mutualInterests]

\* .sort((a, b) => b.score - a.score): stable, by score descending
SortByScore(recs) ==
  LET rank(i) == Cardinality({j \in 1..Len(recs) :
                    \/ recs[j].score > recs[i].score
                    \/ recs[j].score = recs[i].score /\ j < i}) + 1
  IN [k \in 1..Len(recs) |-> recs[CHOOSE i \in 1..Len(recs) : rank(i) = k]]

\* .slice(0, n)
Slice(arr, n) == SubSeq(arr, 1, IF Len(arr) < n THEN Len(arr) ELSE n)

\* from allPotentialUsers to the response body
Recommendations(user, similarInterestsUsers, mutualFriendsUsers) ==
  LET allPotentialUsers == UniqueObjects(similarInterestsUsers \o mutualFriendsUsers)
      mapped == [i \in 1..Len(allPotentialUsers) |->
                   Recommendation(user, allPotentialUsers[i])]
  IN Slice(SortByScore(SelectSeq(mapped, LAMBDA rec : rec.score > 0)), MaxResults)

Recommended(k, req, user, similarInterestsUsers, mutualFriendsUsers) ==
  Answer(k, req, [code |-> 200,
                  body |-> Recommendations(user, similarInterestsUsers,
                                           mutualFriendsUsers)])

\* with similarInterestsUsers in hand: on to the second find, if the subject
\* has friends, or else to the response
AfterSimilar(k, req, user, similarInterestsUsers) ==
  IF Len(FriendIds(user)) > 0
  THEN Await(k, "findMutual", req,
             [user |-> user, similarInterestsUsers |-> similarInterestsUsers])
  ELSE Recommended(k, req, user, similarInterestsUsers, <<>>)

\* the request arrives and findById with its populates resolves; the handler
\* runs to the first find it has to make
BeginRecommend(k, userId) ==
  /\ ArriveGet(k)
  /\ UNCHANGED db
  /\ LET req == Request("recommendations", userId, NoUser)
         user == FindSubject(db, userId)
     IN IF Len(user.interests) > 0
        THEN Await(k, "findSimilar", req, [user |-> user])
        ELSE AfterSimilar(k, req, user, <<>>)

\* the find by interests resolves
FindSimilar(k) ==
  /\ inflight[k].pc = "findSimilar"
  /\ UNCHANGED <<db, budget, overlap>>
  /\ LET user == inflight[k].locals.user
     IN AfterSimilar(k, inflight[k].req, user, SimilarInterestsUsers(db, user))

\* the find for mutual friends resolves and the response is sent
FindMutual(k) ==
  /\ inflight[k].pc = "findMutual"
  /\ UNCHANGED <<db, budget, overlap>>
  /\ LET user == inflight[k].locals.user
     IN Recommended(k, inflight[k].req, user,
                    inflight[k].locals.similarInterestsUsers,
                    MutualFriendsUsers(db, user))

Recommend == \E k \in Slots, u \in DOMAIN db : BeginRecommend(k, u)
StepFindSimilar == \E k \in Slots : FindSimilar(k)
StepFindMutual == \E k \in Slots : FindMutual(k)

NextRec == Next \/ Recommend \/ StepFindSimilar \/ StepFindMutual

-----------------------------------------------------------------------------
\* Directories to recommend from.  Each is reached by registrations with the
\* interests given and by requests and accepts between the pairs: a pair is
\* unrelated, has a request open in one direction, or is friends.

PairKinds == {"none", "requested", "pending", "friends"}
FriendKinds == {"none", "friends"}

\* the entries v adds to the list path of u, for rel[<<lo, hi>>] with lo < hi
Entries(rel, u, v, path) ==
  LET kind == IF u < v THEN rel[<<u, v>>] ELSE rel[<<v, u>>]
      sentByU == \/ u < v /\ kind = "requested"
                 \/ u > v /\ kind = "pending"
      sentByV == \/ v < u /\ kind = "requested"
                 \/ v > u /\ kind = "pending"
  IN CASE path = "friends" -> IF kind = "friends" THEN <<v>> ELSE <<>>
       [] path = "sentFriendRequests" -> IF sentByU THEN <<v>> ELSE <<>>
       [] path = "pendingFriendRequests" -> IF sentByV THEN <<v>> ELSE <<>>

RECURSIVE ListOf(_, _, _, _)
ListOf(rel, u, n, path) ==
  IF n = 0 THEN <<>>
  ELSE ListOf(rel, u, n - 1, path) \o (IF n = u THEN <<>> ELSE Entries(rel, u, n, path))

\* the saves a pair's history made on each of its two documents
SavesOf(kind) ==
  CASE kind = "none" -> 0
    [] kind \in {"requested", "pending"} -> 1
    [] kind = "friends" -> 2

Directory(n, interests, rel) ==
  [u \in 1..n |->
    [username |-> u,
     interests |-> interests[u],
     friends |-> ListOf(rel, u, n, "friends"),
     sentFriendRequests |-> ListOf(rel, u, n, "sentFriendRequests"),
     pendingFriendRequests |-> ListOf(rel, u, n, "pendingFriendRequests"),
     version |-> LET RECURSIVE sum(_)
                     sum(v) == IF v = 0 THEN 0
                               ELSE sum(v - 1) + (IF v = u THEN 0
                                    ELSE SavesOf(IF u < v THEN rel[<<u, v>>]
                                                 ELSE rel[<<v, u>>]))
                 IN sum(n)]]

PairsOf(n) == {p \in (1..n) \X (1..n) : p[1] < p[2]}

\* a recommendation is asked for while the directory is being written to
RecRequests ==
  /\ resp = NoResp
  /\ inflight = [k \in Slots |-> Idle]
  /\ budget = [get |-> MaxGets, post |-> MaxRecPosts]
  /\ overlap = FALSE

\* every relation of user 1 to the others, and friendships among the others
InitRec ==
  /\ \E interests \in [1..NumRecUsers -> InterestLists] :
       \E toFirst \in [2..NumRecUsers -> PairKinds] :
         \E others \in [{p \in PairsOf(NumRecUsers) : p[1] # 1} -> FriendKinds] :
           db = Directory(NumRecUsers, interests,
                  [p \in PairsOf(NumRecUsers) |->
                     IF p[1] = 1 THEN toFirst[p[2]] ELSE others[p]])
  /\ RecRequests

SpecRec == InitRec /\ [][NextRec]_vars

\* the first users are friends of user NumRankUsers, the friend they share,
\* and the users other than NumRankUsers all have the same interests
InitRank ==
  /\ \E list \in InterestLists :
       \E shared \in 0..(NumRankUsers - 1) :
         db = Directory(NumRankUsers,
                [u \in 1..NumRankUsers |-> IF u < NumRankUsers THEN list ELSE <<>>],
                [p \in PairsOf(NumRankUsers) |->
                   IF p[2] = NumRankUsers /\ p[1] <= shared
                   THEN "friends" ELSE "none"])
  /\ RecRequests

SpecRank == InitRank /\ [][NextRec]_vars

-----------------------------------------------------------------------------
\* Properties of the recommendations

IsRecommendations == resp.op = "recommendations"
Subject == resp.userId
Body == resp.reply.body

Interests(u) == Elems(db[u].interests)
Friends(u) == Elems(db[u].friends)
Sent(u) == Elems(db[u].sentFriendRequests)
Pending(u) == Elems(db[u].pendingFriendRequests)

\* the subject, their friends, and the users they sent a request to or have a
\* request pending from, as the handler read them
ExclusionSet(user) ==
  {user.id} \cup Elems(user.friends) \cup Elems(user.sentFriendRequests)
    \cup Elems(user.pendingFriendRequests)

IsRecommending(k) == inflight[k].pc \in {"findSimilar", "findMutual"}

\* C1: the recommendations a handler answers never contain the subject, nor a
\* user who was in the subject's friends, sentFriendRequests or
\* pendingFriendRequests when the handler read the subject at its start,
\* whatever was written to the directory since.
RecommendationsExcludeRelated ==
  [][\A k \in Slots :
       (IsRecommending(k) /\ inflight'[k].pc = "idle") =>
         \A i \in 1..Len(resp'.reply.body) :
           resp'.reply.body[i].user \notin ExclusionSet(inflight[k].locals.user)]_vars

\* no write was served since the directory was set up, and no request is
\* being served: the directory is the one every read of the answered request saw
Undisturbed == AllIdle /\ budget.post = MaxRecPosts

SharesSomething(u, v) ==
  Interests(u) \cap Interests(v) # {} \/ Friends(u) \cap Friends(v) # {}

\* recommendations were answered, with a user in them, to a subject who has a
\* request open with a user who shares an interest or a friend with them
RelatedUserLeftOut ==
  /\ IsRecommendations
  /\ Undisturbed
  /\ Len(Body) > 0
  /\ \E x \in Sent(Subject) \cup Pending(Subject) :
       x # Subject /\ SharesSomething(Subject, x)

\* C2: no two elements of the recommendations have the same user id.
RecommendedOnce ==
  (IsRecommendations /\ Undisturbed) =>
    \A i \in 1..Len(Body), j \in 1..Len(Body) : i # j => Body[i].user # Body[j].user

\* C3: every element's score is twice the number of distinct ids in both the
\* candidate's and the subject's friends plus the number of distinct strings in
\* both the candidate's and the subject's interests.
ScoreCountsDistinct ==
  (IsRecommendations /\ Undisturbed) =>
    \A i \in 1..Len(Body) :
      Body[i].score =
        2 * Cardinality(Friends(Body[i].user) \cap Friends(Subject))
          + Cardinality(Interests(Body[i].user) \cap Interests(Subject))

ScoreOf(u) ==
  Recommendation(FindSubject(db, Subject), Found(db, "any", <<u>>)[1]).score
Eligible ==
  {u \in DOMAIN db \ ExclusionSet(FindSubject(db, Subject)) : ScoreOf(u) > 0}
InBody == {Body[i].user : i \in 1..Len(Body)}

\* C4: the recommendations are the top MaxResults eligible users by score: at
\* most MaxResults elements, scores non-increasing and positive, no eligible
\* user left out scores more than an element, and fewer than MaxResults
\* eligible users are all in the output.
TopByScore ==
  (IsRecommendations /\ Undisturbed) =>
    /\ Len(Body) <= MaxResults
    /\ \A i \in 1..(Len(Body) - 1) : Body[i].score >= Body[i + 1].score
    /\ \A i \in 1..Len(Body) : Body[i].score > 0
    /\ \A u \in Eligible \ InBody :
         \A i \in 1..Len(Body) : ScoreOf(u) <= Body[i].score
    /\ Cardinality(Eligible) < MaxResults => Eligible \subseteq InBody

-----------------------------------------------------------------------------
\* Lifecycle properties

\* every request so far was served alone, and none is being served
ServedOneByOne == AllIdle /\ ~overlap

\* C6: after requests served one at a time, for every user, friends,
\* sentFriendRequests and pendingFriendRequests are pairwise disjoint.  Stated
\* over the ids of the other users, so that a violation does not rest on a
\* request a user addressed to themselves (C7).
ListsPairwiseDisjoint ==
  ServedOneByOne =>
    \A u \in DOMAIN db :
      /\ (Friends(u) \cap Sent(u)) \ {u} = {}
      /\ (Friends(u) \cap Pending(u)) \ {u} = {}
      /\ (Sent(u) \cap Pending(u)) \ {u} = {}

\* C7: after requests served one at a time, no user's id is in that user's own
\* friends, sentFriendRequests or pendingFriendRequests.
NoSelfReference ==
  ServedOneByOne =>
    \A u \in DOMAIN db : u \notin Friends(u) \cup Sent(u) \cup Pending(u)

\* C8: after requests served one at a time, b is in a's pendingFriendRequests
\* if and only if a is in b's sentFriendRequests.
PendingIsInverseOfSent ==
  ServedOneByOne =>
    \A a \in DOMAIN db, b \in DOMAIN db : (b \in Pending(a)) <=> (a \in Sent(b))

SameFriends(d, e, u) == d[u].friends = e[u].friends

\* C9: an accept by r for s, served alone, with no request of s pending at r
\* (s not in r's pendingFriendRequests, or r not in s's sentFriendRequests)
\* leaves the friends of both unchanged, so a friendship is only created by
\* resolving a request.  Stated for r and s distinct, so that a violation does
\* not rest on C7, and over the two saves of the accept as they are served.
AcceptOnlyResolvesRequest ==
  [][\A k \in Slots :
       (/\ ~overlap
        /\ inflight[k].pc = "saveFirst"
        /\ inflight[k].req.op = "accept"
        /\ inflight[k].req.userId # inflight[k].req.paramId
        /\ ~(/\ inflight[k].req.paramId \in Pending(inflight[k].req.userId)
             /\ inflight[k].req.userId \in Sent(inflight[k].req.paramId)))
       => SameFriends(db', db, inflight[k].req.userId)]_vars

CanRequest(a, b) ==
  /\ a # b
  /\ ~Includes(db[a].friends, b)
  /\ ~Includes(db[a].sentFriendRequests, b)

SameLists(d, e) ==
  \A u \in DOMAIN e :
    /\ d[u].interests = e[u].interests
    /\ \A p \in Paths : d[u][p] = e[u][p]

\* C10: when no request is being served and a and b are distinct, not friends
\* and b is not in a's sentFriendRequests, two consecutive POST /request/b by a
\* answer 'requested' then 'cancelled' and leave every list of every user as it
\* was.
RequestIsToggle ==
  AllIdle =>
    \A a \in DOMAIN db, b \in DOMAIN db :
      CanRequest(a, b) =>
        LET first == Handle(db, "request", a, b)
            second == Handle(first.db, "request", a, b)
        IN /\ first.reply.status = "requested"
           /\ b \in Elems(first.db[a].sentFriendRequests)
           /\ a \in Elems(first.db[b].pendingFriendRequests)
           /\ second.reply.status = "cancelled"
           /\ SameLists(second.db, db)

\* C5: once every request has completed, a is in b's friends if and only if b
\* is in a's friends.
FriendsSymmetric ==
  AllIdle =>
    \A a \in DOMAIN db, b \in DOMAIN db : (b \in Friends(a)) <=> (a \in Friends(b))

=============================================================================
